---------------------------- MODULE Spec2Model ----------------------------
(***************************************************************************)
(* Few<T>: a value holding zero, one or two values of T (src/src/lib.rs).  *)
(*                                                                         *)
(* Three specifications over one set of variables:                         *)
(*   Spec      the iterator protocol of one Few value: construction, then  *)
(*             any sequence of next / next_back / contains calls;          *)
(*   SpecPure  the consuming pure operations: the From conversions,        *)
(*             Default and map, applied to inputs drawn from bounded sets; *)
(*   SpecRW    replace_with, statement by statement, with the ExitGuard    *)
(*             and a closure that may panic.                               *)
(***************************************************************************)
EXTENDS Integers, Sequences, FiniteSets, Bags

\* Payload values are 0..MaxVal; a Few value takes at most MaxCalls calls.
MaxVal == 2
MaxCalls == 4

T == 0..MaxVal

---------------------------------------------------------------------------
(* Option<T> and Few<T> as tagged records.                                 *)

None == [tag |-> "None"]
Some(v) == [tag |-> "Some", v |-> v]

Zero == [tag |-> "Zero"]
One(v) == [tag |-> "One", v |-> v]
Two(a, b) == [tag |-> "Two", a |-> a, b |-> b]

OptionOf(S) == {None} \cup {Some(v) : v \in S}
FewOf(S) == {Zero} \cup {One(v) : v \in S} \cup {Two(a, b) : a \in S, b \in S}

---------------------------------------------------------------------------
(* Inspection: is_zero, is_one, is_two, contains, len.                     *)

is_zero(few) ==
    CASE few.tag = "Zero" -> TRUE
      [] OTHER            -> FALSE

\* is_one that also accepts the Two shape (a wildcard in the wrong arm).
is_one_any(few) ==
    CASE few.tag = "Zero" -> FALSE
      [] OTHER            -> TRUE

is_one(few) ==
    CASE few.tag = "One" -> TRUE
      [] OTHER           -> FALSE

is_two(few) ==
    CASE few.tag = "Two" -> TRUE
      [] OTHER           -> FALSE

\* contains that tests only the first value of a Two.
contains_first(few, x) ==
    CASE few.tag = "Zero" -> FALSE
      [] few.tag = "One"  -> x = few.v
      [] few.tag = "Two"  -> x = few.a

contains(few, x) ==
    CASE few.tag = "Zero" -> FALSE
      [] few.tag = "One"  -> x = few.v
      [] few.tag = "Two"  -> x = few.a \/ x = few.b

len(few) ==
    CASE few.tag = "Zero" -> 0
      [] few.tag = "One"  -> 1
      [] few.tag = "Two"  -> 2

---------------------------------------------------------------------------
(* Production.  Each closure maps the shape read out of the storage to the *)
(* shape written back (new) and the value assigned to the captured res.    *)

\* next that takes the second value of a Two first.
NextClosureSwapped(curr) ==
    CASE curr.tag = "Zero" -> [res |-> None,         new |-> Zero]
      [] curr.tag = "One"  -> [res |-> Some(curr.v), new |-> Zero]
      [] curr.tag = "Two"  -> [res |-> Some(curr.b), new |-> One(curr.a)]

\* next that returns the value of a One and leaves the One in place.
NextClosureKeepsOne(curr) ==
    CASE curr.tag = "Zero" -> [res |-> None,         new |-> Zero]
      [] curr.tag = "One"  -> [res |-> Some(curr.v), new |-> One(curr.v)]
      [] curr.tag = "Two"  -> [res |-> Some(curr.a), new |-> One(curr.b)]

NextClosure(curr) ==
    CASE curr.tag = "Zero" -> [res |-> None,         new |-> Zero]
      [] curr.tag = "One"  -> [res |-> Some(curr.v), new |-> Zero]
      [] curr.tag = "Two"  -> [res |-> Some(curr.a), new |-> One(curr.b)]

\* next_back that takes the first value of a Two, as next does.
NextBackClosureFront(curr) ==
    CASE curr.tag = "Zero" -> [res |-> None,         new |-> Zero]
      [] curr.tag = "One"  -> [res |-> Some(curr.v), new |-> Zero]
      [] curr.tag = "Two"  -> [res |-> Some(curr.a), new |-> One(curr.b)]

\* next_back that returns the second value of a Two and keeps it as well.
NextBackClosureDup(curr) ==
    CASE curr.tag = "Zero" -> [res |-> None,         new |-> Zero]
      [] curr.tag = "One"  -> [res |-> Some(curr.v), new |-> Zero]
      [] curr.tag = "Two"  -> [res |-> Some(curr.b), new |-> One(curr.b)]

NextBackClosure(curr) ==
    CASE curr.tag = "Zero" -> [res |-> None,         new |-> Zero]
      [] curr.tag = "One"  -> [res |-> Some(curr.v), new |-> Zero]
      [] curr.tag = "Two"  -> [res |-> Some(curr.b), new |-> One(curr.a)]

\* The production methods.
Production == {"next", "next_back"}

\* The closure a production method hands to replace_with.
Replace(op, curr) ==
    IF op = "next" THEN NextClosure(curr) ELSE NextBackClosure(curr)

\* replace_with without the write-back: the storage keeps the old value.
replace_with_no_write(val, op) ==
    LET old == val
        new == Replace(op, old)
    IN  [val |-> old, res |-> new.res]

\* replace_with on normal completion: read the old value, run the closure,
\* write its result back.  The record holds the storage afterwards (val)
\* and what the closure left in the captured res.
replace_with(val, op) ==
    LET old == val
        new == Replace(op, old)
    IN  [val |-> new.new, res |-> new.res]

---------------------------------------------------------------------------
(* Consuming operations: the From conversions, Default and map.            *)

\* Payloads of the inputs of the consuming operations are 0..MaxArg.
MaxArg == 3
Args == 0..MaxArg

\* Default::default
default == Zero

\* From<T>
from_value(value) == One(value)

\* From<(T, T)>
from_pair(value) == Two(value[1], value[2])

\* From<Option<T>>
from_option(value) ==
    CASE value.tag = "None" -> Zero
      [] value.tag = "Some" -> One(value.v)

\* From<Option<(T, T)>>
from_option_pair(value) ==
    CASE value.tag = "None" -> Zero
      [] value.tag = "Some" -> Two(value.v[1], value.v[2])

\* From<(Option<T>, Option<T>)> that forgets a second value standing alone.
from_options_first_only(value) ==
    CASE value[1].tag = "None" /\ value[2].tag = "None" -> Zero
      [] value[1].tag = "Some" /\ value[2].tag = "None" -> One(value[1].v)
      [] value[1].tag = "None" /\ value[2].tag = "Some" -> Zero
      [] value[1].tag = "Some" /\ value[2].tag = "Some" -> Two(value[1].v, value[2].v)

\* From<(Option<T>, Option<T>)>
from_options(value) ==
    CASE value[1].tag = "None" /\ value[2].tag = "None" -> Zero
      [] value[1].tag = "Some" /\ value[2].tag = "None" -> One(value[1].v)
      [] value[1].tag = "None" /\ value[2].tag = "Some" -> One(value[2].v)
      [] value[1].tag = "Some" /\ value[2].tag = "Some" -> Two(value[1].v, value[2].v)

\* The transforms handed to map.  A transform is FnMut: what it returns may
\* depend on how often it was invoked before (n), as "stamp" does.
Transforms == {"identity", "succ", "stamp"}

Apply(f, n, v) ==
    CASE f = "identity" -> v
      [] f = "succ"     -> v + 1
      [] f = "stamp"    -> v + (MaxArg + 1) * n

\* map that evaluates the second field of a Two before the first.
map_second_first(few, f) ==
    CASE few.tag = "Zero" -> [few |-> Zero, log |-> <<>>]
      [] few.tag = "One"  -> [few |-> One(Apply(f, 0, few.v)), log |-> <<few.v>>]
      [] few.tag = "Two"  ->
            LET ub == Apply(f, 0, few.b)
                ua == Apply(f, 1, few.a)
            IN  [few |-> Two(ua, ub), log |-> <<few.b, few.a>>]

\* Few::map.  The record holds the rebuilt value and the arguments the
\* transform was invoked with, in the order of the invocations.
map(few, f) ==
    CASE few.tag = "Zero" -> [few |-> Zero, log |-> <<>>]
      [] few.tag = "One"  -> [few |-> One(Apply(f, 0, few.v)), log |-> <<few.v>>]
      [] few.tag = "Two"  ->
            LET ua == Apply(f, 0, few.a)
                ub == Apply(f, 1, few.b)
            IN  [few |-> Two(ua, ub), log |-> <<few.a, few.b>>]

---------------------------------------------------------------------------
VARIABLES
    self,     \* the Few value being iterated
    orig,     \* the value as constructed
    calls,    \* the calls made on self so far, oldest first
    opname,   \* the consuming operation applied last
    arg,      \* its argument
    fn,       \* the transform of a map
    ret,      \* the Few it returned
    log,      \* the arguments the transform was invoked with, in order
    pc,       \* the statement a production call in progress is at
    replace,  \* the closure it handed to replace_with
    res,      \* the captured res of the production method
    guard,    \* the ExitGuard of the replace_with frame
    old,      \* replace_with's local old
    new,      \* replace_with's local new
    taken     \* the values production calls have returned to the caller

iterVars == <<self, orig, calls>>
pureVars == <<opname, arg, fn, ret, log>>
rwVars == <<pc, replace, res, guard, old, new, taken>>
vars == <<self, orig, calls, opname, arg, fn, ret, log,
          pc, replace, res, guard, old, new, taken>>

Call(o, x, before, r, found, after) ==
    [op |-> o, x |-> x, before |-> before, res |-> r, found |-> found,
     after |-> after]

IterInit ==
    /\ self \in FewOf(T)
    /\ orig = self
    /\ calls = <<>>

\* No value is being iterated.
IterIdle ==
    /\ self = Zero
    /\ orig = Zero
    /\ calls = <<>>

\* No consuming operation has been applied.
PureIdle ==
    /\ opname = "none"
    /\ arg = None
    /\ fn = "identity"
    /\ ret = Zero
    /\ log = <<>>

\* A local that holds no value: not yet assigned, or moved out of.
Uninit == [tag |-> "Uninit"]

\* No production call is being followed statement by statement.
RWIdle ==
    /\ pc = "caller"
    /\ replace = "next"
    /\ res = None
    /\ guard = "none"
    /\ old = Uninit
    /\ new = Uninit
    /\ taken = {}

\* Iterator::next
next ==
    /\ Len(calls) < MaxCalls
    /\ LET r == replace_with(self, "next")
       IN  /\ self' = r.val
           /\ calls' = Append(calls, Call("next", 0, self, r.res, FALSE, r.val))
    /\ UNCHANGED <<orig, pureVars, rwVars>>

\* DoubleEndedIterator::next_back
next_back ==
    /\ Len(calls) < MaxCalls
    /\ LET r == replace_with(self, "next_back")
       IN  /\ self' = r.val
           /\ calls' = Append(calls, Call("next_back", 0, self, r.res, FALSE, r.val))
    /\ UNCHANGED <<orig, pureVars, rwVars>>

\* Few::contains, through a shared reference
contains_call ==
    /\ Len(calls) < MaxCalls
    /\ \E x \in T :
          calls' = Append(calls, Call("contains", x, self, None, contains(self, x), self))
    /\ UNCHANGED <<self, orig, pureVars, rwVars>>

Init == IterInit /\ PureIdle /\ RWIdle
Next == next \/ next_back \/ contains_call
Spec == Init /\ [][Next]_vars

---------------------------------------------------------------------------
(* The consuming operations applied to inputs drawn from bounded sets.     *)

DoDefault ==
    /\ opname' = "default"
    /\ arg' = None
    /\ ret' = default
    /\ fn' = "identity" /\ log' = <<>>
    /\ UNCHANGED <<iterVars, rwVars>>

DoFromValue ==
    /\ \E v \in Args :
          /\ arg' = v
          /\ ret' = from_value(v)
    /\ opname' = "from_value"
    /\ fn' = "identity" /\ log' = <<>>
    /\ UNCHANGED <<iterVars, rwVars>>

DoFromPair ==
    /\ \E p \in Args \X Args :
          /\ arg' = p
          /\ ret' = from_pair(p)
    /\ opname' = "from_pair"
    /\ fn' = "identity" /\ log' = <<>>
    /\ UNCHANGED <<iterVars, rwVars>>

DoFromOption ==
    /\ \E o \in OptionOf(Args) :
          /\ arg' = o
          /\ ret' = from_option(o)
    /\ opname' = "from_option"
    /\ fn' = "identity" /\ log' = <<>>
    /\ UNCHANGED <<iterVars, rwVars>>

DoFromOptionPair ==
    /\ \E o \in OptionOf(Args \X Args) :
          /\ arg' = o
          /\ ret' = from_option_pair(o)
    /\ opname' = "from_option_pair"
    /\ fn' = "identity" /\ log' = <<>>
    /\ UNCHANGED <<iterVars, rwVars>>

DoFromOptions ==
    /\ \E p \in OptionOf(Args) \X OptionOf(Args) :
          /\ arg' = p
          /\ ret' = from_options(p)
    /\ opname' = "from_options"
    /\ fn' = "identity" /\ log' = <<>>
    /\ UNCHANGED <<iterVars, rwVars>>

DoMap ==
    /\ \E few \in FewOf(Args), f \in Transforms :
          LET r == map(few, f)
          IN  /\ arg' = few
              /\ fn' = f
              /\ ret' = r.few
              /\ log' = r.log
    /\ opname' = "map"
    /\ UNCHANGED <<iterVars, rwVars>>

InitPure == IterIdle /\ PureIdle /\ RWIdle
NextPure ==
    \/ DoDefault
    \/ DoFromValue
    \/ DoFromPair
    \/ DoFromOption
    \/ DoFromOptionPair
    \/ DoFromOptions
    \/ DoMap
SpecPure == InitPure /\ [][NextPure]_vars


---------------------------------------------------------------------------
(* One production call at a time, statement by statement.  replace_with is *)
(* generic in its closure and documents what a panic of the closure does;  *)
(* so the closure here either returns or panics.  Payloads are distinct    *)
(* objects, so that a value can be told from another one equal to it.      *)

DistinctFew == {few \in FewOf(T) : few.tag = "Two" => few.a # few.b}

\* ExitGuard::drop that returns instead of panicking.
ExitGuard_drop_returns(unwinding) == "return"

\* ExitGuard::drop always panics; a panic raised while the thread is
\* already unwinding aborts the process.
ExitGuard_drop(unwinding) == IF unwinding THEN "abort" ELSE "panic"

\* next / next_back: let mut res = None; replace_with(self, closure)
rw_enter ==
    /\ pc = "caller"
    /\ \E c \in Production : replace' = c
    /\ res' = None
    /\ guard' = "none"
    /\ old' = Uninit
    /\ new' = Uninit
    /\ pc' = "guard"
    /\ UNCHANGED <<iterVars, pureVars, taken>>

\* let guard = ExitGuard;
rw_guard ==
    /\ pc = "guard"
    /\ guard' = "armed"
    /\ pc' = "read"
    /\ UNCHANGED <<iterVars, pureVars, replace, res, old, new, taken>>

\* let old = std::ptr::read(val);  the storage keeps its bits
rw_read ==
    /\ pc = "read"
    /\ old' = self
    /\ pc' = "replace"
    /\ UNCHANGED <<iterVars, pureVars, replace, res, guard, new, taken>>

\* let new = replace(old);  the closure returns
rw_replace_returns ==
    /\ pc = "replace"
    /\ LET r == Replace(replace, old)
       IN  /\ new' = r.new
           /\ res' = r.res
    /\ old' = Uninit
    /\ pc' = "write"
    /\ UNCHANGED <<iterVars, pureVars, replace, guard, taken>>

\* let new = replace(old);  the closure panics, before or after it has
\* assigned res
rw_replace_panics ==
    /\ pc = "replace"
    /\ res' \in {res, Replace(replace, old).res}
    /\ old' = Uninit
    /\ pc' = "unwinding"
    /\ UNCHANGED <<iterVars, pureVars, replace, guard, new, taken>>

\* The unwinding leaves replace_with's frame and drops its guard.
rw_unwind ==
    /\ pc = "unwinding"
    /\ LET outcome == IF guard = "armed" THEN ExitGuard_drop(TRUE) ELSE "return"
       IN  pc' = IF outcome = "abort" THEN "aborted" ELSE "unwound"
    /\ guard' = "dropped"
    /\ UNCHANGED <<iterVars, pureVars, replace, res, old, new, taken>>

\* std::ptr::write(val, new);
rw_write ==
    /\ pc = "write"
    /\ self' = new
    /\ pc' = "forget"
    /\ UNCHANGED <<orig, calls, pureVars, replace, res, guard, old, new, taken>>

\* std::mem::forget(guard);
rw_forget ==
    /\ pc = "forget"
    /\ guard' = "forgotten"
    /\ pc' = "return"
    /\ UNCHANGED <<iterVars, pureVars, replace, res, old, new, taken>>

\* res
rw_return ==
    /\ pc = "return"
    /\ taken' = IF res.tag = "Some" THEN taken \cup {res.v} ELSE taken
    /\ pc' = "caller"
    /\ UNCHANGED <<iterVars, pureVars, replace, res, guard, old, new>>

InitRW ==
    /\ self \in DistinctFew
    /\ orig = self
    /\ calls = <<>>
    /\ PureIdle
    /\ RWIdle
NextRW ==
    \/ rw_enter
    \/ rw_guard
    \/ rw_read
    \/ rw_replace_returns
    \/ rw_replace_panics
    \/ rw_unwind
    \/ rw_write
    \/ rw_forget
    \/ rw_return
SpecRW == InitRW /\ [][NextRW]_vars

---------------------------------------------------------------------------
(* What the calls so far produced.                                         *)

\* The values a shape holds, first to last.
Contents(few) ==
    CASE few.tag = "Zero" -> <<>>
      [] few.tag = "One"  -> <<few.v>>
      [] few.tag = "Two"  -> <<few.a, few.b>>

\* The calls that returned a value, the values, and the ends they came from.
Produced == SelectSeq(calls, LAMBDA c : c.res.tag = "Some")
Out == [i \in 1..Len(Produced) |-> Produced[i].res.v]
ProdOps == [i \in 1..Len(Produced) |-> Produced[i].op]

\* How many times each value occurs in a sequence.
SeqBag(s) ==
    [v \in {s[i] : i \in DOMAIN s} |-> Cardinality({i \in DOMAIN s : s[i] = v})]

\* Every recorded call starts from the storage the call before it left, and
\* the last one left the storage as it is now.
Linked(i) ==
    IF i < Len(calls) THEN calls[i + 1].before = calls[i].after
                      ELSE self = calls[i].after

---------------------------------------------------------------------------
(* C1: once a Few value is exhausted by any interleaving of next and        *)
(* next_back, the values produced are exactly the values it was built      *)
(* with, each once; from Two(a,b), next-only yields a, b, next_back-only   *)
(* yields b, a, and next then next_back yields a, b.                       *)
DrainYieldsContents ==
    self = Zero =>
        /\ SeqBag(Out) = SeqBag(Contents(orig))
        /\ Len(Out) = Len(Contents(orig))
        /\ \A a, b \in T : orig = Two(a, b) =>
              /\ (ProdOps = <<"next", "next">> => Out = <<a, b>>)
              /\ (ProdOps = <<"next_back", "next_back">> => Out = <<b, a>>)
              /\ (ProdOps = <<"next", "next_back">> => Out = <<a, b>>)
              /\ (ProdOps = <<"next_back", "next">> => Out = <<b, a>>)

DrainMixedWitness ==
    /\ self = Zero
    /\ orig.tag = "Two" /\ orig.a # orig.b
    /\ ProdOps = <<"next", "next_back">>

(* C2: next removes and returns the first remaining value: Two(a,b) gives  *)
(* a and leaves One(b), One(v) gives v and leaves Zero, Zero gives no      *)
(* value and stays Zero.                                                   *)
NextRemovesFirst ==
    \A i \in DOMAIN calls : calls[i].op = "next" =>
        LET c == calls[i]
        IN  /\ (c.before = Zero => c.res = None /\ c.after = Zero)
            /\ \A v \in T : c.before = One(v) => c.res = Some(v) /\ c.after = Zero
            /\ \A a, b \in T :
                  c.before = Two(a, b) => c.res = Some(a) /\ c.after = One(b)
            /\ Linked(i)

NextWitness ==
    \E i, j, k \in DOMAIN calls :
        /\ calls[i].op = "next" /\ calls[j].op = "next" /\ calls[k].op = "next"
        /\ calls[i].before.tag = "Two" /\ calls[i].before.a # calls[i].before.b
        /\ calls[j].before.tag = "One"
        /\ calls[k].before.tag = "Zero"

(* C3: next_back removes and returns the last remaining value: Two(a,b)    *)
(* gives b and leaves One(a), One(v) gives v and leaves Zero, Zero gives   *)
(* no value and stays Zero.                                                *)
NextBackRemovesLast ==
    \A i \in DOMAIN calls : calls[i].op = "next_back" =>
        LET c == calls[i]
        IN  /\ (c.before = Zero => c.res = None /\ c.after = Zero)
            /\ \A v \in T : c.before = One(v) => c.res = Some(v) /\ c.after = Zero
            /\ \A a, b \in T :
                  c.before = Two(a, b) => c.res = Some(b) /\ c.after = One(a)
            /\ Linked(i)

NextBackWitness ==
    \E i, j, k \in DOMAIN calls :
        /\ calls[i].op = "next_back" /\ calls[j].op = "next_back"
        /\ calls[k].op = "next_back"
        /\ calls[i].before.tag = "Two" /\ calls[i].before.a # calls[i].before.b
        /\ calls[j].before.tag = "One"
        /\ calls[k].before.tag = "Zero"

(* C4: fused.  A production call made on Zero returns no value and leaves  *)
(* Zero; once a call has left Zero every later call finds and leaves Zero; *)
(* no value is produced more often than the value was built with it.       *)
Fused ==
    /\ \A i \in DOMAIN calls :
          calls[i].op \in Production /\ calls[i].before = Zero =>
              calls[i].res = None /\ calls[i].after = Zero
    /\ \A i, j \in DOMAIN calls :
          i < j /\ calls[i].after = Zero =>
              calls[j].before = Zero /\ calls[j].res = None /\ calls[j].after = Zero
    /\ (\E i \in DOMAIN calls : calls[i].after = Zero) => self = Zero
    /\ \A v \in T :
          Cardinality({i \in DOMAIN Out : Out[i] = v})
              <= Cardinality({i \in DOMAIN Contents(orig) : Contents(orig)[i] = v})

FusedWitness ==
    /\ orig.tag = "One"
    /\ Len(calls) = 4
    /\ calls[1].op = "next_back" /\ calls[1].after = Zero
    /\ calls[2].op = "next" /\ calls[3].op = "next_back" /\ calls[4].op = "next"

\* Every sequence of values that production, in any interleaving of the two
\* ends, still yields from a shape before it first returns no value.
RECURSIVE Drains(_)
Drains(few) ==
    UNION { LET r == Replace(op, few)
            IN  IF r.res = None THEN {<<>>}
                ELSE {<<r.res.v>> \o t : t \in Drains(r.new)}
            : op \in Production }

(* C5: in every state reached by construction and production calls exactly *)
(* one of is_zero, is_one, is_two is true, len() is 0, 1 or 2 accordingly, *)
(* and len() is the number of values further production still yields.      *)
ShapeAndLen ==
    /\ \/ is_zero(self) /\ ~is_one(self) /\ ~is_two(self)
       \/ ~is_zero(self) /\ is_one(self) /\ ~is_two(self)
       \/ ~is_zero(self) /\ ~is_one(self) /\ is_two(self)
    /\ (is_zero(self) => len(self) = 0)
    /\ (is_one(self) => len(self) = 1)
    /\ (is_two(self) => len(self) = 2)
    /\ \A d \in Drains(self) : Len(d) = len(self)

ShapeAndLenWitness ==
    /\ orig.tag = "Two"
    /\ is_one(self)
    /\ \E i \in DOMAIN calls : calls[i].op = "next_back" /\ calls[i].res.tag = "Some"

(* C8: contains(x) is false on Zero, x = v on One(v), x = a or x = b on    *)
(* Two(a,b), and leaves the Few value as it was.                           *)
ContainsResult ==
    \A i \in DOMAIN calls : calls[i].op = "contains" =>
        LET c == calls[i]
        IN  /\ (c.before = Zero => c.found = FALSE)
            /\ \A v \in T : c.before = One(v) => c.found = (c.x = v)
            /\ \A a, b \in T :
                  c.before = Two(a, b) => c.found = (c.x = a \/ c.x = b)
            /\ c.after = c.before
            /\ Linked(i)

ContainsWitness ==
    \E i, j \in DOMAIN calls :
        /\ calls[i].op = "contains" /\ calls[j].op = "contains"
        /\ calls[i].before.tag = "Two" /\ calls[i].before.a # calls[i].before.b
        /\ calls[i].x = calls[i].before.b /\ calls[i].found
        /\ calls[j].before.tag = "One" /\ ~calls[j].found
        /\ i < j /\ j < Len(calls)

(* C9: production never grows the value: a call that returns a value       *)
(* lowers len() by exactly one, a call that returns none finds and leaves  *)
(* len() at 0, and after at most two returned values the value is Zero.    *)
NeverGrows ==
    /\ \A i \in DOMAIN calls : calls[i].op \in Production =>
          LET c == calls[i]
          IN  /\ len(c.after) <= len(c.before)
              /\ (c.res.tag = "Some" => len(c.after) = len(c.before) - 1)
              /\ (c.res = None => len(c.before) = 0 /\ len(c.after) = 0)
              /\ Linked(i)
    /\ len(self) <= len(orig)
    /\ Len(Produced) <= 2
    /\ (Len(Produced) = 2 => self = Zero)

NeverGrowsWitness ==
    /\ Len(Produced) = 2
    /\ \E i \in DOMAIN calls : calls[i].op \in Production /\ calls[i].res = None

---------------------------------------------------------------------------
(* C6: converting a pair of optionals is total and keeps exactly the       *)
(* present values in positional order: (None, None) gives Zero, (Some(a),  *)
(* None) gives One(a), (None, Some(b)) gives One(b), (Some(a), Some(b))    *)
(* gives Two(a, b); len of the result is the number of present optionals.  *)
FromOptionsTable ==
    opname = "from_options" =>
        /\ ret \in FewOf(Args)
        /\ (arg = <<None, None>> => ret = Zero)
        /\ \A a \in Args : arg = <<Some(a), None>> => ret = One(a)
        /\ \A b \in Args : arg = <<None, Some(b)>> => ret = One(b)
        /\ \A a, b \in Args : arg = <<Some(a), Some(b)>> => ret = Two(a, b)
        /\ len(ret) = Cardinality({i \in 1..2 : arg[i] # None})

FromOptionsWitness ==
    /\ opname = "from_options"
    /\ arg[1] = None
    /\ arg[2].tag = "Some"
    /\ ret.tag = "One"

(* C7: map rebuilds the shape of its input: Zero gives Zero without        *)
(* invoking the transform, One(v) gives One(transform(v)) with one         *)
(* invocation, Two(a,b) gives Two(transform(a), transform(b)) with two     *)
(* invocations, a before b; map(identity) returns its input.               *)
MapKeepsShape ==
    opname = "map" =>
        /\ (arg = Zero => ret = Zero /\ log = <<>>)
        /\ \A v \in Args :
              arg = One(v) => ret = One(Apply(fn, 0, v)) /\ log = <<v>>
        /\ \A a, b \in Args :
              arg = Two(a, b) =>
                  /\ ret = Two(Apply(fn, 0, a), Apply(fn, 1, b))
                  /\ log = <<a, b>>
        /\ ret.tag = arg.tag
        /\ (fn = "identity" => ret = arg)

MapWitness ==
    /\ opname = "map"
    /\ fn = "stamp"
    /\ arg.tag = "Two" /\ arg.a # arg.b
    /\ ret.tag = "Two"

---------------------------------------------------------------------------
\* The values a shape holds, as a set.
ContentsSet(few) == {Contents(few)[i] : i \in DOMAIN Contents(few)}

\* The caller runs: before a production call, after it returned, or, were
\* a panic to unwind out of replace_with, with the panic in hand.
CallerRuns == pc \in {"caller", "unwound"}

(* C10: replace_with is atomic to the caller.  A panic of the closure      *)
(* aborts the process and never unwinds to the caller; whenever the caller *)
(* runs, no value is both in the storage and in the returned result, no    *)
(* value was dropped, the guard is disarmed, and after a completed call    *)
(* the storage holds exactly the closure's result.                         *)
ReplaceAtomic ==
    /\ pc # "unwound"
    /\ CallerRuns =>
          /\ ~(res.tag = "Some" /\ res.v \in ContentsSet(self))
          /\ ContentsSet(self) \cap taken = {}
          /\ ContentsSet(self) \cup taken = ContentsSet(orig)
          /\ guard \in {"none", "forgotten"}
          /\ (guard = "forgotten" => self = new)
    /\ (pc = "write" =>
          /\ new = Replace(replace, self).new
          /\ res = Replace(replace, self).res)

ReplaceAbortWitness ==
    /\ pc = "aborted"
    /\ res.tag = "Some"
    /\ res.v \in ContentsSet(self)

===========================================================================
